---- MODULE Spec2Model ----
(***************************************************************************)
(* Model of the SensorProvider of frontend/src/contexts/SensorContext.jsx: *)
(* the React state of the provider, the interval effect that drives the    *)
(* simulation tick, the diagnostics handler and getSensorReading.          *)
(*                                                                         *)
(* Numbers.  JavaScript numbers are modelled as fixed-point integers:      *)
(*   - telemetry fields (pressure, flow, temp, vibration, corrosion) in    *)
(*     units of 1/Scale;                                                   *)
(*   - segment health in tenths of a percent (HealthScale);                *)
(*   - systemHealth in units of 1/SysScale, the common denominator of      *)
(*     0.7 * (sum / 4) + 0.3 * min over tenths, so that the value is exact.*)
(* The two JavaScript non-numbers a field read can produce, undefined and  *)
(* NaN, are the sentinels Undefined and NaN; arithmetic propagates them.   *)
(*                                                                         *)
(* Math.random is a pseudo random generator with hidden state: rng is that *)
(* state, NextRandom steps it and Random reads a value of [0,1) from it.   *)
(* Date.now() is clock, counted in periods of the 2000 ms tick interval.   *)
(*                                                                         *)
(* The pages that use the provider or talk to the server are modelled next *)
(* to it: the readings list of SensorMonitor, the streaming loop of        *)
(* LeakDetection, the Dismiss button of Alerts and handleDelete of         *)
(* DataUpload.  A request is a step that puts it in flight and a later     *)
(* step in which it is answered or fails; toasts and console.error calls   *)
(* are recorded in the order they are made.                                *)
(***************************************************************************)
EXTENDS Integers, Sequences, FiniteSets

VARIABLES
    sensors,        \* useState(INITIAL_SENSORS)
    history,        \* useState(() => 30 mock points)
    systemHealth,   \* useState(100.0), in 1/SysScale
    isLive,         \* useState(true)
    isDiagnosing,   \* useState(false)
    segmentHealth,  \* useState({...}), tenths of a percent
    segRef,         \* identity of the segmentHealth object (a new one per tick)
    effectDeps,     \* the [isLive, segmentHealth] the effect last ran with
    cleanup,        \* TRUE iff the last effect run returned a cleanup function
    intervals,      \* armed setInterval timers, each with the closure it captured
    diagTimers,     \* number of armed 6000 ms setTimeout timers of runDiagnostics
    clock,          \* Date.now(), in tick periods
    rng,            \* state of Math.random
    reading,        \* value returned by the last getSensorReading call
    readArg,        \* argument of the last getSensorReading call
    log,            \* history of the execution: every entry ever put in history
    tickCount,      \* number of tick callbacks executed
    liveTicks,      \* number of tick callbacks executed while isLive was true
    idle,           \* tick periods that elapsed with no interval armed
    diagStarted,    \* number of runDiagnostics calls
    readCount,      \* number of getSensorReading calls
    diagCalls,      \* the runDiagnostics calls made, in call order
    \* SensorMonitor page
    selectedSensor, \* useState('all')
    readings,       \* useState([])
    sampleLog,      \* every sample taken since readings was last emptied
    sampleCount,    \* number of samples taken
    \* LeakDetection page
    selectedDataset,   \* useState('')
    isSimulating,      \* useState(false)
    isSimulatingRef,   \* useRef(false)
    simulationData,    \* useState([])
    currentPrediction, \* useState(null)
    generatedAlerts,   \* useState([])
    simulationRef,     \* useRef(null): id of the last timer armed, 0 for null
    datasetContentRef, \* useRef([])
    stepRef,           \* useRef(0)
    downloads,         \* dataset downloads in flight
    inflight,          \* inference requests in flight
    timers,            \* armed setTimeout(processStep, 200) ids, oldest first
    timerSeq,          \* last timer id handed out by setTimeout
    leakNow,           \* Date.now() as the page sees it
    submitted,         \* row indices posted since the last startSimulation
    starts,            \* number of startSimulation calls
    stops,             \* number of stopSimulation calls
    stopped,           \* stopSimulation was called, no startSimulation since
    failed,            \* an inference request failed, no startSimulation since
    dataLog,           \* entries put in simulationData since the last start
    alertLog,          \* alerts put in generatedAlerts since the last start
    \* notifications and console, shared by the pages
    toasts,            \* every toast call, in order
    consoleErrors,     \* every console.error call, in order
    failures,          \* every failed request, in order
    \* Alerts and DataUpload pages
    ackInflight,       \* acknowledge requests in flight
    deleteInflight,    \* delete requests in flight
    staleQueries,      \* query keys invalidated
    dismissCount,      \* number of Dismiss clicks
    deleteCount        \* number of handleDelete calls

vars == <<sensors, history, systemHealth, isLive, isDiagnosing, segmentHealth,
          segRef, effectDeps, cleanup, intervals, diagTimers, clock, rng,
          reading, readArg, log, tickCount, liveTicks, idle, diagStarted,
          readCount, diagCalls, selectedSensor, readings, sampleLog,
          sampleCount,
          selectedDataset, isSimulating, isSimulatingRef, simulationData,
          currentPrediction, generatedAlerts, simulationRef,
          datasetContentRef, stepRef, downloads, inflight, timers, timerSeq,
          leakNow, submitted, starts, stops, stopped, failed, dataLog, alertLog,
          toasts, consoleErrors, failures,
          ackInflight, deleteInflight, staleQueries, dismissCount,
          deleteCount>>

providerVars == <<sensors, history, systemHealth, isLive, isDiagnosing,
                  segmentHealth, segRef, effectDeps, cleanup, intervals,
                  diagTimers, clock, rng, reading, readArg, log, tickCount,
                  liveTicks, idle, diagStarted, readCount, diagCalls>>

monitorVars == <<selectedSensor, readings, sampleLog, sampleCount>>

leakVars == <<selectedDataset, isSimulating, isSimulatingRef, simulationData,
              currentPrediction, generatedAlerts, simulationRef,
              datasetContentRef, stepRef, downloads, inflight, timers,
              timerSeq, leakNow, submitted, starts, stops, stopped, failed, dataLog,
              alertLog>>

logVars == <<toasts, consoleErrors, failures>>

adminVars == <<ackInflight, deleteInflight, staleQueries, dismissCount,
               deleteCount>>

pageVars == <<monitorVars, leakVars, logVars, adminVars>>

(***************************************************************************)
(* Bounds of the model.                                                    *)
(***************************************************************************)
MaxTicks == 31          \* ticks of a lifecycle run (more than one full buffer)
MaxIdle == 1            \* tick periods that elapse while paused
MaxDiagRuns == 1        \* runDiagnostics calls of a lifecycle run
MaxShortTicks == 2      \* ticks of the runs that enumerate the inputs
MaxShortReads == 1      \* getSensorReading calls of those runs
MaxSamples == 32        \* samples of a SensorMonitor run
MaxRows == 2            \* rows of the longest dataset
MaxStarts == 1          \* startSimulation calls
MaxStops == 1           \* stopSimulation calls
MaxShortStarts == 1     \* startSimulation calls of the runs with every page
MaxDismiss == 1         \* Dismiss clicks on the Alerts page
MaxDeletes == 1         \* handleDelete calls on the DataUpload page
MaxOverlap == 2         \* runDiagnostics calls of the runs that overlap them
MaxRaceStarts == 2      \* startSimulation calls of the runs that overlap them
MaxRaceStops == 1       \* stopSimulation calls of those runs
MaxLongRows == 51       \* rows of the dataset that fills the session buffers
MaxLongStarts == 1      \* startSimulation calls on that dataset
MaxQuietRows == 2       \* its first rows, whose answers may carry no alert

(***************************************************************************)
(* Number representation.                                                  *)
(***************************************************************************)
Scale == 200000
HealthScale == 10
SysScale == 400
RandDen == 16
RandStep == 7
SinScale == 1000
SinPeriod == 32
DayPeriods == 43200
StartClock == 1000

NaN == 0 - 2000000001
Undefined == 0 - 2000000002

IsNumber(x) == x # NaN /\ x # Undefined

Add(a, b) == IF IsNumber(a) /\ IsNumber(b) THEN a + b ELSE NaN

\* a * (n / d) in fixed point
Mul(a, n, d) == IF IsNumber(a) THEN (a * n) \div d ELSE NaN

\* obj.f : undefined when the object has no such property
Field(obj, f) == IF f \in DOMAIN obj THEN obj[f] ELSE Undefined

\* obj.f = v
SetField(obj, f, v) ==
    [k \in (DOMAIN obj) \cup {f} |-> IF k = f THEN v ELSE obj[k]]

\* a || b for numbers: undefined, NaN and 0 are falsy
OrElse(a, b) == IF IsNumber(a) /\ a # 0 THEN a ELSE b

(***************************************************************************)
(* Math.random, Math.sin, Math.cos, toLocaleTimeString.                    *)
(***************************************************************************)
\* one draw steps the generator (an additive generator of full period)
NextRandom(x) == (x + RandStep) % RandDen

\* the generator state n draws after state x
RandomState(x, n) == (x + n * RandStep) % RandDen

\* the value in [0,1) drawn in generator state x, in 1/Scale
Random(x) == (x * Scale) \div RandDen

SinTable ==
    << 0, 195, 383, 556, 707, 831, 924, 981, 1000, 981, 924, 831, 707, 556,
       383, 195, 0, -195, -383, -556, -707, -831, -924, -981, -1000, -981,
       -924, -831, -707, -556, -383, -195 >>

\* sin and cos of the angle k * 2 pi / SinPeriod, in 1/SinScale
Sin(k) == SinTable[(k % SinPeriod) + 1]
Cos(k) == Sin(k + SinPeriod \div 4)

\* toLocaleTimeString: the time of day of clock value c
TimeLabel(c) == c % DayPeriods

(***************************************************************************)
(* INITIAL_SENSORS and the initial state of the provider.                  *)
(***************************************************************************)
INITIAL_SENSORS ==
    << [id |-> "SENSOR_A", name |-> "Sensor A", status |-> "normal",
        lat |-> 51505, lng |-> -150, location |-> "Pipeline Segment 1",
        corrosion |-> 8400],
       [id |-> "SENSOR_B", name |-> "Sensor B", status |-> "normal",
        lat |-> 51508, lng |-> -120, location |-> "Pipeline Segment 2",
        corrosion |-> 9000],
       [id |-> "SENSOR_C", name |-> "Sensor C", status |-> "normal",
        lat |-> 51512, lng |-> -90, location |-> "Pipeline Segment 3",
        corrosion |-> 25000],
       [id |-> "SENSOR_D", name |-> "Sensor D", status |-> "normal",
        lat |-> 51509, lng |-> -60, location |-> "Pipeline Segment 4",
        corrosion |-> 29600],
       [id |-> "SENSOR_E", name |-> "Sensor E", status |-> "normal",
        lat |-> 51506, lng |-> -30, location |-> "Pipeline Segment 5",
        corrosion |-> 10400] >>

SensorIds == {INITIAL_SENSORS[i].id : i \in 1..Len(INITIAL_SENSORS)}

\* arguments getSensorReading is called with: the ids and SensorMonitor's 'all'
ReadArgs == SensorIds \cup {"all"}

Segments == {"A-B", "B-C", "C-D", "D-E"}

SeedHealth ==
    [s \in Segments |->
        CASE s = "A-B" -> 1000
          [] s = "B-C" -> 998
          [] s = "C-D" -> 885
          [] s = "D-E" -> 995]

HistoryCap == 30

\* the i-th of the 30 mock points, i in 1..30, when the provider is
\* constructed at clock value c with generator state seed
SeedEntry(c, seed, i) ==
    [time |-> TimeLabel(c - HistoryCap + i),
     pressure |-> 80 * Scale + Random(RandomState(seed, 2 * (i - 1))),
     flow |-> 45 * Scale + Random(RandomState(seed, 2 * (i - 1) + 1)),
     temp |-> 22 * Scale,
     vibration |-> Scale \div 10,
     corrosion |-> Scale \div 20]

InitialHistory(c, seed) == [i \in 1..HistoryCap |-> SeedEntry(c, seed, i)]

\* the effect has not run yet: no segmentHealth object has identity -1
NoDeps == <<FALSE, -1>>

\* SensorMonitor as mounted: no sensor selected, no reading yet
MonitorInit ==
    /\ selectedSensor = "all"
    /\ readings = << >>
    /\ sampleLog = << >>
    /\ sampleCount = 0

\* LeakDetection as mounted (lines 15-24)
LeakInit ==
    /\ selectedDataset = ""
    /\ isSimulating = FALSE
    /\ isSimulatingRef = FALSE
    /\ simulationData = << >>
    /\ currentPrediction = << >>
    /\ generatedAlerts = << >>
    /\ simulationRef = 0
    /\ datasetContentRef = << >>
    /\ stepRef = 0
    /\ downloads = << >>
    /\ inflight = << >>
    /\ timers = << >>
    /\ timerSeq = 0
    /\ leakNow = 0
    /\ submitted = << >>
    /\ starts = 0
    /\ stops = 0
    /\ stopped = FALSE
    /\ failed = FALSE
    /\ dataLog = << >>
    /\ alertLog = << >>

LogInit ==
    /\ toasts = << >>
    /\ consoleErrors = << >>
    /\ failures = << >>

AdminInit ==
    /\ ackInflight = << >>
    /\ deleteInflight = << >>
    /\ staleQueries = {}
    /\ dismissCount = 0
    /\ deleteCount = 0

InitWith(Seeds, Clocks, Healths) ==
    \E seed \in Seeds, c \in Clocks, h \in Healths :
        /\ sensors = INITIAL_SENSORS
        /\ history = InitialHistory(c, seed)
        /\ systemHealth = 100 * SysScale
        /\ isLive = TRUE
        /\ isDiagnosing = FALSE
        /\ segmentHealth = h
        /\ segRef = 0
        /\ effectDeps = NoDeps
        /\ cleanup = FALSE
        /\ intervals = << >>
        /\ diagTimers = 0
        /\ clock = c
        /\ rng = RandomState(seed, 2 * HistoryCap)
        /\ reading = << >>
        /\ readArg = "none"
        /\ log = InitialHistory(c, seed)
        /\ tickCount = 0
        /\ liveTicks = 0
        /\ idle = 0
        /\ diagStarted = 0
        /\ readCount = 0
        /\ diagCalls = << >>
        /\ MonitorInit
        /\ LeakInit
        /\ LogInit
        /\ AdminInit

(***************************************************************************)
(* The tick: the callback of setInterval (lines 71-137).                   *)
(***************************************************************************)
SegmentOrder == <<"A-B", "B-C", "C-D", "D-E">>

\* Object.values(segmentHealth)
Values(seg) == [i \in 1..Len(SegmentOrder) |-> seg[SegmentOrder[i]]]

RECURSIVE SumSeq(_)
SumSeq(s) == IF s = << >> THEN 0 ELSE s[1] + SumSeq(Tail(s))

MinSeq(s) == CHOOSE m \in {s[i] : i \in 1..Len(s)} :
                 \A i \in 1..Len(s) : m <= s[i]

\* SystemHealthOf with the two weights exchanged
SystemHealthOfSwapped(seg) ==
    LET values == Values(seg)
        minVal == MinSeq(values)
        sum == SumSeq(values)
    IN  (sum * 3 * SysScale) \div (Len(values) * 10 * HealthScale)
          + (minVal * 7 * SysScale) \div (10 * HealthScale)

\* (avg * 0.7) + (minVal * 0.3), in 1/SysScale, from values in 1/HealthScale
SystemHealthOf(seg) ==
    LET values == Values(seg)
        minVal == MinSeq(values)
        sum == SumSeq(values)
    IN  (sum * 7 * SysScale) \div (Len(values) * 10 * HealthScale)
          + (minVal * 3 * SysScale) \div (10 * HealthScale)

\* HealthToCheck as an if / else-if chain: the first match wins
HealthToCheckFirstMatch(id, seg) ==
    IF id = "SENSOR_A" \/ id = "SENSOR_B" THEN seg["A-B"]
    ELSE IF id = "SENSOR_B" \/ id = "SENSOR_C" THEN seg["B-C"]
    ELSE IF id = "SENSOR_C" \/ id = "SENSOR_D" THEN seg["C-D"]
    ELSE IF id = "SENSOR_E" THEN seg["D-E"]
    ELSE 100 * HealthScale

\* the four successive id checks: a later match overwrites an earlier one
HealthToCheck(id, seg) ==
    LET h0 == 100 * HealthScale
        h1 == IF id = "SENSOR_A" \/ id = "SENSOR_B" THEN seg["A-B"] ELSE h0
        h2 == IF id = "SENSOR_B" \/ id = "SENSOR_C" THEN seg["B-C"] ELSE h1
        h3 == IF id = "SENSOR_C" \/ id = "SENSOR_D" THEN seg["C-D"] ELSE h2
        h4 == IF id = "SENSOR_E" THEN seg["D-E"] ELSE h3
    IN  h4

\* StatusOf with inclusive thresholds (<= 75, <= 90)
StatusOfInclusive(healthToCheck) ==
    IF healthToCheck <= 75 * HealthScale THEN "critical"
    ELSE IF healthToCheck <= 90 * HealthScale THEN "warning"
    ELSE "normal"

\* Logic: 90-100 Normal, 75-90 Warning, <75 Critical
StatusOf(healthToCheck) ==
    IF healthToCheck < 75 * HealthScale THEN "critical"
    ELSE IF healthToCheck < 90 * HealthScale THEN "warning"
    ELSE "normal"

\* TickSensors that also overwrites the baseline corrosion of each sensor
TickSensorsResetCorrosion(prevSensors, seg) ==
    [i \in 1..Len(prevSensors) |->
        [prevSensors[i] EXCEPT
            !.status = StatusOf(HealthToCheck(prevSensors[i].id, seg)),
            !.corrosion = 0]]

\* prevSensors.map(s => ({ ...s, status: newStatus }))
TickSensors(prevSensors, seg) ==
    [i \in 1..Len(prevSensors) |->
        [prevSensors[i] EXCEPT
            !.status = StatusOf(HealthToCheck(prevSensors[i].id, seg))]]

\* (100 - segmentHealth['C-D']) / 100, in 1/Scale
Deterioration(seg) ==
    ((100 * HealthScale - seg["C-D"]) * Scale) \div (100 * HealthScale)

\* NewDataPoint without the temp field
NewDataPointNoTemp(seg, k, r) ==
    LET globalPressure == 80 * Scale + (Sin(k) * 5 * Scale) \div SinScale
        globalFlow == 45 * Scale + (Cos(k) * 3 * Scale) \div SinScale
        deterioration == Deterioration(seg)
    IN  [time |-> TimeLabel(k),
         pressure |-> globalPressure + Random(r),
         flow |-> globalFlow - deterioration * 5 + Random(NextRandom(r)),
         vibration |-> Scale \div 10 + deterioration \div 2]

\* the entry built at clock value k in generator state r (two draws)
NewDataPoint(seg, k, r) ==
    LET globalPressure == 80 * Scale + (Sin(k) * 5 * Scale) \div SinScale
        globalFlow == 45 * Scale + (Cos(k) * 3 * Scale) \div SinScale
        deterioration == Deterioration(seg)
    IN  [time |-> TimeLabel(k),
         pressure |-> globalPressure + Random(r),
         flow |-> globalFlow - deterioration * 5 + Random(NextRandom(r)),
         temp |-> 22 * Scale + (Sin(2 * k) * Scale) \div SinScale,
         vibration |-> Scale \div 10 + deterioration \div 2]

\* PushHistory without the cut to 30
PushHistoryNoCut(prev, point) == Append(prev, point)

\* PushHistory cutting with slice(0, 30): keeps the oldest 30
PushHistoryKeepHead(prev, point) ==
    LET newHist == Append(prev, point)
    IN  IF Len(newHist) > HistoryCap
        THEN SubSeq(newHist, 1, HistoryCap)
        ELSE newHist

\* [...prev, newDataPoint], cut to the last 30
PushHistory(prev, point) ==
    LET newHist == Append(prev, point)
    IN  IF Len(newHist) > HistoryCap
        THEN SubSeq(newHist, Len(newHist) - HistoryCap + 1, Len(newHist))
        ELSE newHist

\* TickSegmentHealth with a "breathing" that raises every value by 0.1
TickSegmentHealthDrift(prev) == [s \in DOMAIN prev |-> prev[s] + 1]

\* setSegmentHealth(prev => ({ ...prev })): a new object, the same values
TickSegmentHealth(prev) == [s \in DOMAIN prev |-> prev[s]]

\* the interval fires one period after the previous event; the callback runs
\* with the segmentHealth its effect run captured.  Its four state updates
\* are applied by the render React schedules right after the callback: the
\* callback and that commit are one step.  The effect re-runs later
\* (FlushEffects), so until then the interval that fired stays armed.
TickOp(limit) ==
    \E i \in 1..Len(intervals) :
        LET seg == intervals[i].segmentHealth
            point == NewDataPoint(seg, clock + 1, rng)
        IN  /\ tickCount < limit
            /\ clock' = clock + 1
            /\ segmentHealth' = TickSegmentHealth(segmentHealth)
            /\ segRef' = segRef + 1
            /\ sensors' = TickSensors(sensors, seg)
            /\ systemHealth' = SystemHealthOf(seg)
            /\ history' = PushHistory(history, point)
            /\ rng' = NextRandom(NextRandom(rng))
            /\ log' = Append(log, point)
            /\ tickCount' = tickCount + 1
            /\ liveTicks' = IF isLive THEN liveTicks + 1 ELSE liveTicks
            /\ UNCHANGED <<diagCalls, isLive, isDiagnosing, effectDeps, cleanup, intervals,
                           diagTimers, reading, readArg, idle, diagStarted,
                           readCount, pageVars>>

(***************************************************************************)
(* The effect (lines 68-140) and how React runs it.                        *)
(***************************************************************************)
\* EffectCleanup of an effect that returns no cleanup function
EffectCleanupMissing(ivs, hasCleanup) == ivs

\* return () => clearInterval(interval): clears the interval the last run armed
EffectCleanup(ivs, hasCleanup) ==
    IF hasCleanup /\ Len(ivs) > 0 THEN SubSeq(ivs, 1, Len(ivs) - 1) ELSE ivs

\* EffectArm without the early return of a paused feed
EffectArmAlways(ivs, live, seg) == Append(ivs, [segmentHealth |-> seg])

\* if (!isLive) return; const interval = setInterval(...)
EffectArm(ivs, live, seg) ==
    IF ~live THEN ivs ELSE Append(ivs, [segmentHealth |-> seg])

\* one run of the effect for the committed state (live, ref, seg): the cleanup
\* of the previous run, then the body
RunEffect(live, ref, seg) ==
    /\ intervals' = EffectArm(EffectCleanup(intervals, cleanup), live, seg)
    /\ cleanup' = live
    /\ effectDeps' = <<live, ref>>

\* CommitEffects of an effect that does not re-run when isLive changes
CommitEffectsSkipped(live, ref, seg) ==
    UNCHANGED <<intervals, cleanup, effectDeps>>

\* React runs the effect after a commit in which a dependency changed
CommitEffects(live, ref, seg) ==
    IF effectDeps # <<live, ref>>
    THEN RunEffect(live, ref, seg)
    ELSE UNCHANGED <<intervals, cleanup, effectDeps>>

\* passive effects of a render caused by a timer callback run after it
FlushEffects ==
    /\ effectDeps # <<isLive, segRef>>
    /\ RunEffect(isLive, segRef, segmentHealth)
    /\ UNCHANGED <<diagCalls, sensors, history, systemHealth, isLive, isDiagnosing,
                   segmentHealth, segRef, diagTimers, clock, rng, reading,
                   readArg, log, tickCount, liveTicks, idle, diagStarted,
                   readCount, pageVars>>

(***************************************************************************)
(* The Pause/Resume button and runDiagnostics (lines 43-56).  Both are     *)
(* user events: React 18 renders and runs the effects of a discrete event  *)
(* before it returns to the event loop.                                    *)
(***************************************************************************)
SetIsLive(v) ==
    /\ isLive' = v
    /\ CommitEffects(v, segRef, segmentHealth)
    /\ UNCHANGED <<diagCalls, sensors, history, systemHealth, isDiagnosing, segmentHealth,
                   segRef, diagTimers, clock, rng, reading, readArg, log,
                   tickCount, liveTicks, idle, diagStarted, readCount,
                   pageVars>>

\* onClick={() => setIsLive(!isLive)}
PauseResume == SetIsLive(~isLive)

\* CompleteCall invoking the callback a second time
CompleteCallTwice(call) ==
    [call EXCEPT !.invoked = IF call.onComplete THEN @ + 2 ELSE @,
                 !.resolved = TRUE]

\* if (onComplete) onComplete(); resolve();
CompleteCall(call) ==
    [call EXCEPT !.invoked = IF call.onComplete THEN @ + 1 ELSE @,
                 !.resolved = TRUE]

\* LiveAfterDiagnostics of a callback without setIsLive(true)
LiveAfterDiagnosticsKept(live) == live

\* setIsLive(true) of the timer callback, whatever isLive is
LiveAfterDiagnostics(live) == TRUE

\* runDiagnostics(onComplete) up to the promise it returns (lines 43-56)
RunDiagnosticsOp(limit, Callbacks) ==
    \E onComplete \in Callbacks :
        /\ diagStarted < limit
        /\ isDiagnosing' = TRUE
        /\ isLive' = FALSE
        /\ diagTimers' = diagTimers + 1
        /\ diagStarted' = diagStarted + 1
        /\ diagCalls' = Append(diagCalls, [onComplete |-> onComplete,
                                           invoked |-> 0,
                                           resolved |-> FALSE])
        /\ CommitEffects(FALSE, segRef, segmentHealth)
        /\ UNCHANGED <<sensors, history, systemHealth, segmentHealth, segRef,
                       clock, rng, reading, readArg, log, tickCount,
                       liveTicks, idle, readCount, pageVars>>

RunDiagnostics == RunDiagnosticsOp(MaxDiagRuns, {TRUE})

\* the setTimeout callback of a runDiagnostics call; the timers have the same
\* delay, so the one that fires is that of the oldest call still pending
DiagTimeout ==
    LET k == diagStarted - diagTimers + 1
    IN  /\ diagTimers > 0
        /\ isDiagnosing' = FALSE
        /\ isLive' = LiveAfterDiagnostics(isLive)
        /\ diagTimers' = diagTimers - 1
        /\ diagCalls' = [diagCalls EXCEPT ![k] = CompleteCall(diagCalls[k])]
        /\ UNCHANGED <<sensors, history, systemHealth, segmentHealth, segRef,
                       effectDeps, cleanup, intervals, clock, rng, reading,
                       readArg, log, tickCount, liveTicks, idle, diagStarted,
                       readCount, pageVars>>

\* a tick period elapses while the feed is paused and no interval is armed
ElapsePaused ==
    /\ ~isLive
    /\ intervals = << >>
    /\ idle < MaxIdle
    /\ clock' = clock + 1
    /\ idle' = idle + 1
    /\ UNCHANGED <<diagCalls, sensors, history, systemHealth, isLive, isDiagnosing,
                   segmentHealth, segRef, effectDeps, cleanup, intervals,
                   diagTimers, rng, reading, readArg, log, tickCount,
                   liveTicks, diagStarted, readCount, pageVars>>

(***************************************************************************)
(* getSensorReading (lines 143-206).  It draws four random numbers: two in *)
(* the branch of the sensor, one for the corrosion, one for the pressure.  *)
(***************************************************************************)
\* INITIAL_SENSORS.findIndex(s => s.id === sensorId), 0-based, -1 if absent
FindIndex(sensorId) ==
    IF sensorId \in SensorIds
    THEN (CHOOSE i \in 1..Len(INITIAL_SENSORS) :
              INITIAL_SENSORS[i].id = sensorId) - 1
    ELSE -1

\* history[history.length - 1] || { pressure: 80, flow: 45, vibration: 0.1 }
Latest(hist) ==
    IF Len(hist) > 0
    THEN hist[Len(hist)]
    ELSE [pressure |-> 80 * Scale, flow |-> 45 * Scale,
          vibration |-> Scale \div 10]

\* let val = latest: val is the entry of history itself
SpreadTargetAlias == "latest"

\* let val = { ...latest }: the object the assignments to val write to
SpreadTarget == "copy"

\* val.flow *= 0.80 with the factor of the upstream sensor
DownstreamFlowGain(flow) == Mul(flow, 115, 100)

\* val.flow *= 0.80 (SENSOR_D)
DownstreamFlow(flow) == Mul(flow, 80, 100)

\* the sensor specific deviations, with the draws of generator states r1, r2
Deviations(val, sensorId, r1, r2) ==
    LET flow == Field(val, "flow")
        pressure == Field(val, "pressure")
        vibration == Field(val, "vibration")
        temp == Field(val, "temp")
        Set4(f, p, v, t) ==
            SetField(SetField(SetField(SetField(val,
                "flow", f), "pressure", p), "vibration", v), "temp", t)
    IN  IF sensorId = "SENSOR_C" THEN
            Set4(Mul(flow, 115, 100),
                 Mul(pressure, 99, 100),
                 Add(Mul(vibration, 13, 10), Mul(Random(r1), 5, 100)),
                 Add(temp, Mul(Random(r2), 2, 100) - Scale \div 100))
        ELSE IF sensorId = "SENSOR_D" THEN
            Set4(DownstreamFlow(flow),
                 Mul(pressure, 85, 100),
                 Add(Mul(vibration, 11, 10), Mul(Random(r1), 2, 100)),
                 Add(temp, Mul(Random(r2), 4, 100) - (2 * Scale) \div 100))
        ELSE IF sensorId = "SENSOR_E" THEN
            Set4(Mul(flow, 79, 100),
                 Mul(pressure, 84, 100),
                 Add(vibration, Mul(Random(r1), 1, 100)),
                 Add(temp, Mul(Random(r2), 1, 100) - (5 * Scale) \div 1000))
        ELSE
            SetField(SetField(val,
                "vibration", Add(vibration, Mul(Random(r1), 5, 1000))),
                "temp", Add(temp, Mul(Random(r2), 1, 100) - (5 * Scale) \div 1000))

\* the call in generator state r: val is the value returned, latest the
\* object history[history.length - 1] as the call leaves it
GetSensorReading(hist, sensorId, r) ==
    LET latest == Latest(hist)
        idx == FindIndex(sensorId)
        distanceLoss == (idx * Scale) \div 2
        r2 == NextRandom(r)
        r3 == NextRandom(r2)
        r4 == NextRandom(r3)
        v1 == SetField(latest, "pressure",
                       Add(Field(latest, "pressure"), 0 - distanceLoss))
        v2 == Deviations(v1, sensorId, r, r2)
        baseCorrosion ==
            OrElse(IF idx >= 0 THEN Field(INITIAL_SENSORS[idx + 1], "corrosion")
                   ELSE Undefined,
                   Scale \div 20)
        v3 == SetField(v2, "corrosion",
                       baseCorrosion + Mul(Random(r3), 1, 100000)
                                     - (5 * Scale) \div 1000000)
        v4 == SetField(v3, "pressure",
                       Add(Field(v3, "pressure"),
                           Mul(Random(r4), 2, 10) - Scale \div 10))
    IN  [val |-> v4,
         latest |-> IF SpreadTarget = "copy" THEN latest ELSE v4]

ReadOp(limit) ==
    \E sensorId \in ReadArgs :
        LET res == GetSensorReading(history, sensorId, rng)
        IN  /\ readCount < limit
            /\ reading' = res.val
            /\ readArg' = sensorId
            /\ readCount' = readCount + 1
            /\ rng' = RandomState(rng, 4)
            /\ history' = IF Len(history) > 0
                          THEN [history EXCEPT ![Len(history)] = res.latest]
                          ELSE history
            /\ UNCHANGED <<diagCalls, sensors, systemHealth, isLive, isDiagnosing,
                           segmentHealth, segRef, effectDeps, cleanup,
                           intervals, diagTimers, clock, log, tickCount,
                           liveTicks, idle, diagStarted, pageVars>>

(***************************************************************************)
(* The SensorMonitor page (part_002 lines 58-110).  Its interval is armed  *)
(* by an effect with the dependencies [isLive, selectedSensor,             *)
(* getSensorReading], so a sample is taken only while the feed is live, on *)
(* the sensor selected and the history of the latest render.               *)
(***************************************************************************)
\* [...prev.slice(-30), newReading]
PushReading(prev, newReading) ==
    LET n == Len(prev)
        kept == IF n > 30 THEN SubSeq(prev, n - 30 + 1, n) ELSE prev
    IN  Append(kept, newReading)

\* the callback of the 1000 ms interval
Sample ==
    LET res == GetSensorReading(history, selectedSensor, rng)
    IN  /\ isLive
        /\ sampleCount < MaxSamples
        /\ readings' = PushReading(readings, res.val)
        /\ sampleLog' = Append(sampleLog, res.val)
        /\ sampleCount' = sampleCount + 1
        /\ reading' = res.val
        /\ readArg' = selectedSensor
        /\ readCount' = readCount + 1
        /\ rng' = RandomState(rng, 4)
        /\ history' = IF Len(history) > 0
                      THEN [history EXCEPT ![Len(history)] = res.latest]
                      ELSE history
        /\ UNCHANGED <<diagCalls, sensors, systemHealth, isLive, isDiagnosing,
                       segmentHealth, segRef, effectDeps, cleanup, intervals,
                       diagTimers, clock, log, tickCount, liveTicks, idle,
                       diagStarted, selectedSensor, leakVars, logVars,
                       adminVars>>

\* setSelectedSensor(id), then the effect of lines 69-71: setReadings([])
SelectSensor ==
    \E id \in ReadArgs :
        /\ id # selectedSensor
        /\ selectedSensor' = id
        /\ readings' = << >>
        /\ sampleLog' = << >>
        /\ UNCHANGED <<diagCalls, sensors, history, systemHealth, isLive, isDiagnosing,
                       segmentHealth, segRef, effectDeps, cleanup, intervals,
                       diagTimers, clock, rng, reading, readArg, log,
                       tickCount, liveTicks, idle, diagStarted, readCount,
                       sampleCount, leakVars, logVars, adminVars>>

\* the refresh button: onClick={() => setReadings([])}
RefreshReadings ==
    /\ readings # << >>
    /\ readings' = << >>
    /\ sampleLog' = << >>
    /\ UNCHANGED <<diagCalls, sensors, history, systemHealth, isLive, isDiagnosing,
                   segmentHealth, segRef, effectDeps, cleanup, intervals,
                   diagTimers, clock, rng, reading, readArg, log, tickCount,
                   liveTicks, idle, diagStarted, readCount, selectedSensor,
                   sampleCount, leakVars, logVars, adminVars>>

(***************************************************************************)
(* The LeakDetection page (pages/LeakDetection.jsx).  A request in flight  *)
(* is answered, with a response or a failure, in a later step; a timer     *)
(* armed by setTimeout fires in a later step, the oldest first.            *)
(***************************************************************************)
RemoveAt(s, i) == SubSeq(s, 1, i - 1) \o SubSeq(s, i + 1, Len(s))

Header ==
    <<"pressure_psi", "flow_rate_lpm", "temperature_c", "vibration_gforce",
      "acoustic_db">>

\* the k-th data line of a CSV file, split at the commas
Line(k) == <<60 + k, 40 + k, 20 + k, k, 50 + k>>

\* a data line that ends after the second column
ShortLine(k) == <<60 + k, 40 + k>>

Blank == << >>

\* the files the server holds: the lines of each, the header line first
Datasets ==
    [d \in {"empty", "gaps", "full", "long"} |->
        CASE d = "empty" -> <<Header, Blank>>
          [] d = "gaps" -> <<Header, Line(1), Blank, ShortLine(2), Blank>>
          [] d = "full" -> <<Header>> \o [k \in 1..MaxRows |-> Line(k)]
          [] d = "long" -> <<Header>> \o [k \in 1..MaxLongRows |-> Line(k)]]

\* the short files, and the one longer than the session buffers
DatasetIds == {"empty", "gaps", "full"}
LongDatasetIds == {"long"}

\* headers.forEach((h, index) => { obj[h] = values[index] })
RowOf(headers, values) ==
    [h \in {headers[j] : j \in 1..Len(headers)} |->
        LET j == CHOOSE j \in 1..Len(headers) : headers[j] = h
        IN  IF j <= Len(values) THEN values[j] ELSE Undefined]

\* Simple CSV Parsing: the non-blank lines after the header, in file order
ParseCsv(lines) ==
    LET headers == lines[1]
        dataLines == SelectSeq(Tail(lines), LAMBDA l : l # Blank)
    IN  [i \in 1..Len(dataLines) |-> RowOf(headers, dataLines[i])]

ParseFloat(x) == IF IsNumber(x) THEN x ELSE NaN

PayloadOf(row, now) ==
    [pressure_psi |-> ParseFloat(Field(row, "pressure_psi")),
     flow_rate_lpm |-> ParseFloat(Field(row, "flow_rate_lpm")),
     temperature_c |-> ParseFloat(Field(row, "temperature_c")),
     vibration_gforce |-> ParseFloat(Field(row, "vibration_gforce")),
     acoustic_db |-> ParseFloat(Field(row, "acoustic_db")),
     timestamp |-> now]

\* the answers of POST /leak/stream; leak_probability in percent
Results ==
    {[leak_class |-> "none", leak_probability |-> 5, severity |-> "low",
      alert_generated |-> FALSE],
     [leak_class |-> "slow", leak_probability |-> 80, severity |-> "high",
      alert_generated |-> TRUE]}

\* { ...a, ...b }
Merge(a, b) ==
    [k \in (DOMAIN a) \cup (DOMAIN b) |->
        IF k \in DOMAIN b THEN b[k] ELSE a[k]]

\* PushSimulationData without the shift()
PushSimulationDataNoShift(prev, entry) == Append(prev, entry)

\* [...prev, entry], then shift() if longer than 50
PushSimulationData(prev, entry) ==
    LET newData == Append(prev, entry)
    IN  IF Len(newData) > 50 THEN Tail(newData) ELSE newData

AlertOf(result, now) ==
    LET confLabel == IF result.leak_probability > 75 THEN "Confirmed"
                     ELSE IF result.leak_probability > 50 THEN "Suspected"
                     ELSE "Potential"
        class == IF result.leak_class = "slow" THEN "Medium"
                 ELSE result.leak_class
    IN  [id |-> now,
         severity |-> result.severity,
         message |-> <<confLabel, class, "Detected">>,
         timestamp |-> now]

\* [alert, ...prev].slice(0, 10)
PushAlert(prev, alert) ==
    LET all == <<alert>> \o prev
    IN  IF Len(all) > 10 THEN SubSeq(all, 1, 10) ELSE all

Toast(type, message) == [type |-> type, message |-> message]

\* ProcessStep that also posts the row after the current one
ProcessStepTwice(sim, simRef, data, shown) ==
    IF ~simRef \/ stepRef >= Len(data)
    THEN /\ isSimulating' = FALSE
         /\ isSimulatingRef' = FALSE
         /\ toasts' = IF stepRef >= Len(data)
                      THEN Append(shown, Toast("success", "Simulation complete"))
                      ELSE shown
         /\ UNCHANGED <<inflight, submitted>>
    ELSE /\ isSimulating' = sim
         /\ isSimulatingRef' = simRef
         /\ toasts' = shown
         /\ inflight' = Append(inflight, PayloadOf(data[stepRef + 1], leakNow))
                            \o (IF stepRef + 2 <= Len(data)
                                THEN <<PayloadOf(data[stepRef + 2], leakNow)>>
                                ELSE << >>)
         /\ submitted' = Append(submitted, stepRef)
                             \o (IF stepRef + 2 <= Len(data)
                                 THEN <<stepRef + 1>> ELSE << >>)

\* processStep up to its await (lines 47-70), called with isSimulating = sim,
\* isSimulatingRef.current = simRef, datasetContentRef.current = data and the
\* toasts shown so far
ProcessStep(sim, simRef, data, shown) ==
    IF ~simRef \/ stepRef >= Len(data)
    THEN /\ isSimulating' = FALSE
         /\ isSimulatingRef' = FALSE
         /\ toasts' = IF stepRef >= Len(data)
                      THEN Append(shown, Toast("success", "Simulation complete"))
                      ELSE shown
         /\ UNCHANGED <<inflight, submitted>>
    ELSE /\ isSimulating' = sim
         /\ isSimulatingRef' = simRef
         /\ toasts' = shown
         /\ inflight' = Append(inflight, PayloadOf(data[stepRef + 1], leakNow))
         /\ submitted' = Append(submitted, stepRef)

\* the dataset select, disabled while a simulation runs (lines 309-319);
\* its first option is the empty value
SelectDatasetOp(ids) ==
    \E d \in ids \cup {""} :
        /\ ~isSimulating
        /\ d # selectedDataset
        /\ selectedDataset' = d
        /\ UNCHANGED <<stopped, failed, dataLog, alertLog, providerVars, monitorVars, logVars, adminVars,
                       isSimulating, isSimulatingRef, simulationData,
                       currentPrediction, generatedAlerts, simulationRef,
                       datasetContentRef, stepRef, downloads, inflight,
                       timers, timerSeq, leakNow, submitted, starts, stops>>

\* startSimulation up to its await (lines 105-120).  The Start button is
\* shown while isSimulating is false and disabled while no dataset is
\* selected, so the guard of line 106 never fails.
StartSimulationOp(limit) ==
    /\ ~isSimulating
    /\ selectedDataset # ""
    /\ starts < limit
    /\ simulationData' = << >>
    /\ generatedAlerts' = << >>
    /\ stepRef' = 0
    /\ toasts' = Append(toasts, Toast("loading", "Loading dataset..."))
    /\ downloads' = Append(downloads, selectedDataset)
    /\ submitted' = << >>
    /\ starts' = starts + 1
    /\ stopped' = FALSE
    /\ failed' = FALSE
    /\ dataLog' = << >>
    /\ alertLog' = << >>
    /\ UNCHANGED <<providerVars, monitorVars, adminVars, consoleErrors,
                   failures, selectedDataset, isSimulating, isSimulatingRef,
                   currentPrediction, simulationRef, datasetContentRef,
                   inflight, timers, timerSeq, leakNow, stops>>

\* the download answers: startSimulation from line 122 to the processStep()
\* call, which runs up to its own await
DownloadOk ==
    \E i \in 1..Len(downloads) :
        LET data == ParseCsv(Datasets[downloads[i]])
            shown == Append(toasts, Toast("dismiss", "loading-data"))
        IN  /\ downloads' = RemoveAt(downloads, i)
            /\ datasetContentRef' = data
            /\ ProcessStep(TRUE, TRUE, data, shown)
            /\ leakNow' = leakNow + 1
            /\ UNCHANGED <<stopped, failed, dataLog, alertLog, providerVars, monitorVars, adminVars,
                           consoleErrors, failures, selectedDataset,
                           simulationData, currentPrediction,
                           generatedAlerts, simulationRef, stepRef, timers,
                           timerSeq, starts, stops>>

\* the download fails: the catch of lines 145-148
DownloadFail ==
    \E i \in 1..Len(downloads) :
        /\ downloads' = RemoveAt(downloads, i)
        /\ toasts' = Append(toasts, Toast("error", "Failed to load dataset"))
        /\ consoleErrors' = Append(consoleErrors, "download")
        /\ failures' = Append(failures, "download")
        /\ leakNow' = leakNow + 1
        /\ UNCHANGED <<stopped, failed, dataLog, alertLog, providerVars, monitorVars, adminVars, selectedDataset,
                       isSimulating, isSimulatingRef, simulationData,
                       currentPrediction, generatedAlerts, simulationRef,
                       datasetContentRef, stepRef, inflight, timers,
                       timerSeq, submitted, starts, stops>>

\* the inference request answers: processStep from line 71 to line 96
InferenceResponse(results) ==
    \E i \in 1..Len(inflight), result \in results :
        LET payload == inflight[i]
        IN  /\ inflight' = RemoveAt(inflight, i)
            /\ currentPrediction' = result
            /\ simulationData' =
                   PushSimulationData(simulationData, Merge(payload, result))
            /\ generatedAlerts' =
                   IF result.alert_generated
                   THEN PushAlert(generatedAlerts, AlertOf(result, leakNow + 1))
                   ELSE generatedAlerts
            /\ dataLog' = Append(dataLog, Merge(payload, result))
            /\ alertLog' =
                   IF result.alert_generated
                   THEN Append(alertLog, AlertOf(result, leakNow + 1))
                   ELSE alertLog
            /\ stepRef' = stepRef + 1
            /\ timerSeq' = timerSeq + 1
            /\ simulationRef' = timerSeq + 1
            /\ timers' = Append(timers, timerSeq + 1)
            /\ leakNow' = leakNow + 1
            /\ UNCHANGED <<stopped, failed, providerVars, monitorVars, logVars, adminVars,
                           selectedDataset, isSimulating, isSimulatingRef,
                           datasetContentRef, downloads, submitted, starts,
                           stops>>

InferenceOk == InferenceResponse(Results)

\* the inference request fails: the catch of lines 98-102
InferenceFail ==
    \E i \in 1..Len(inflight) :
        /\ inflight' = RemoveAt(inflight, i)
        /\ consoleErrors' = Append(consoleErrors, "Simulation error")
        /\ failures' = Append(failures, "inference")
        /\ failed' = TRUE
        /\ isSimulating' = FALSE
        /\ isSimulatingRef' = FALSE
        /\ leakNow' = leakNow + 1
        /\ UNCHANGED <<stopped, dataLog, alertLog, providerVars, monitorVars, adminVars, toasts,
                       selectedDataset, simulationData, currentPrediction,
                       generatedAlerts, simulationRef, datasetContentRef,
                       stepRef, downloads, timers, timerSeq, submitted,
                       starts, stops>>

\* the oldest timer fires: processStep up to its await
TimerFire ==
    /\ timers # << >>
    /\ timers' = Tail(timers)
    /\ ProcessStep(isSimulating, isSimulatingRef, datasetContentRef, toasts)
    /\ leakNow' = leakNow + 1
    /\ UNCHANGED <<stopped, failed, dataLog, alertLog, providerVars, monitorVars, adminVars, consoleErrors,
                   failures, selectedDataset, simulationData,
                   currentPrediction, generatedAlerts, simulationRef,
                   datasetContentRef, stepRef, downloads, timerSeq, starts,
                   stops>>

\* stopSimulation (lines 151-155); the Stop button is shown while
\* isSimulating is true.  clearTimeout of a timer that has fired does nothing.
StopSimulationOp(limit) ==
    /\ isSimulating
    /\ stops < limit
    /\ isSimulating' = FALSE
    /\ isSimulatingRef' = FALSE
    /\ timers' = SelectSeq(timers, LAMBDA t : t # simulationRef)
    /\ stops' = stops + 1
    /\ stopped' = TRUE
    /\ UNCHANGED <<failed, dataLog, alertLog>>
    /\ UNCHANGED <<providerVars, monitorVars, logVars, adminVars,
                   selectedDataset, simulationData, currentPrediction,
                   generatedAlerts, simulationRef, datasetContentRef,
                   stepRef, downloads, inflight, timerSeq, leakNow,
                   submitted, starts>>

SelectDataset == SelectDatasetOp(DatasetIds)
StartSimulation == StartSimulationOp(MaxStarts)
StopSimulation == StopSimulationOp(MaxStops)

(***************************************************************************)
(* The Dismiss button of the Alerts page (Alerts.jsx lines 124-138) and    *)
(* handleDelete of the DataUpload page (DataUpload.jsx lines 48-56).       *)
(***************************************************************************)
AlertIds == {1, 2}

\* onClick of Dismiss up to its await
Dismiss ==
    \E id \in AlertIds :
        /\ dismissCount < MaxDismiss
        /\ ackInflight' = Append(ackInflight, id)
        /\ dismissCount' = dismissCount + 1
        /\ UNCHANGED <<providerVars, monitorVars, leakVars, logVars,
                       deleteInflight, staleQueries, deleteCount>>

AcknowledgeOk ==
    \E i \in 1..Len(ackInflight) :
        /\ ackInflight' = RemoveAt(ackInflight, i)
        /\ staleQueries' = staleQueries \cup {"alerts"}
        /\ UNCHANGED <<providerVars, monitorVars, leakVars, logVars,
                       deleteInflight, dismissCount, deleteCount>>

\* catch (e) { console.error(e) }
AcknowledgeFail ==
    \E i \in 1..Len(ackInflight) :
        /\ ackInflight' = RemoveAt(ackInflight, i)
        /\ consoleErrors' = Append(consoleErrors, "acknowledge")
        /\ failures' = Append(failures, "acknowledge")
        /\ UNCHANGED <<providerVars, monitorVars, leakVars, toasts,
                       deleteInflight, staleQueries, dismissCount,
                       deleteCount>>

\* handleDelete(id) up to its await
DeleteDataset ==
    \E id \in DatasetIds :
        /\ deleteCount < MaxDeletes
        /\ deleteInflight' = Append(deleteInflight, id)
        /\ deleteCount' = deleteCount + 1
        /\ UNCHANGED <<providerVars, monitorVars, leakVars, logVars,
                       ackInflight, staleQueries, dismissCount>>

DeleteOk ==
    \E i \in 1..Len(deleteInflight) :
        /\ deleteInflight' = RemoveAt(deleteInflight, i)
        /\ toasts' = Append(toasts, Toast("success", "Dataset deleted"))
        /\ staleQueries' = staleQueries \cup {"datasets"}
        /\ UNCHANGED <<providerVars, monitorVars, leakVars, consoleErrors,
                       failures, ackInflight, dismissCount, deleteCount>>

\* catch (e) { toast.error('Delete failed') }
DeleteFail ==
    \E i \in 1..Len(deleteInflight) :
        /\ deleteInflight' = RemoveAt(deleteInflight, i)
        /\ toasts' = Append(toasts, Toast("error", "Delete failed"))
        /\ failures' = Append(failures, "delete")
        /\ UNCHANGED <<providerVars, monitorVars, leakVars, consoleErrors,
                       ackInflight, staleQueries, dismissCount, deleteCount>>

(***************************************************************************)
(* Specifications.                                                         *)
(*   Spec        the life of one provider: ticks, pauses, resumes and      *)
(*               diagnostic runs;                                          *)
(*   SpecReading short runs of ticks and getSensorReading calls from every *)
(*               generator state and clock phase;                          *)
(*   SpecHealth  short runs from every assignment of HealthValues to the   *)
(*               four segments.                                            *)
(***************************************************************************)
Tick == TickOp(MaxTicks)
ShortTick == TickOp(MaxShortTicks)
ShortRead == ReadOp(MaxShortReads)

LifeSeeds == {0}
AllSeeds == 0..(RandDen - 1)
AllClocks == StartClock..(StartClock + SinPeriod - 1)
\* the seed values and the values around the two thresholds
HealthValues == {0, 749, 750, 885, 899, 900, 995, 998, 1000}

Init == InitWith(LifeSeeds, {StartClock}, {SeedHealth})

Next ==
    \/ Tick
    \/ FlushEffects
    \/ PauseResume
    \/ RunDiagnostics
    \/ DiagTimeout
    \/ ElapsePaused

Spec == Init /\ [][Next]_vars

InitReading == InitWith(AllSeeds, AllClocks, {SeedHealth})

NextReading ==
    \/ ShortTick
    \/ FlushEffects
    \/ ShortRead

SpecReading == InitReading /\ [][NextReading]_vars

InitHealth == InitWith({0}, {StartClock}, [Segments -> HealthValues])

NextHealth ==
    \/ ShortTick
    \/ FlushEffects
    \/ PauseResume

SpecHealth == InitHealth /\ [][NextHealth]_vars

NextMonitor ==
    \/ Sample
    \/ SelectSensor
    \/ RefreshReadings
    \/ PauseResume

SpecMonitor == Init /\ [][NextMonitor]_vars

NextLeak ==
    \/ SelectDataset
    \/ StartSimulation
    \/ DownloadOk
    \/ DownloadFail
    \/ InferenceOk
    \/ InferenceFail
    \/ TimerFire
    \/ StopSimulation

\* a request in flight is answered or fails, an armed timer fires
SpecLeak ==
    /\ Init
    /\ [][NextLeak]_vars
    /\ WF_vars(DownloadOk \/ DownloadFail)
    /\ WF_vars(InferenceOk \/ InferenceFail)
    /\ WF_vars(TimerFire)

\* overlapping diagnostic runs, with and without a callback
DiagRun == RunDiagnosticsOp(MaxOverlap, BOOLEAN)

NextDiag ==
    \/ DiagRun
    \/ DiagTimeout
    \/ PauseResume
    \/ ShortTick
    \/ FlushEffects
    \/ ElapsePaused

\* an armed timer fires
SpecDiag == Init /\ [][NextDiag]_vars /\ WF_vars(DiagTimeout)

\* a second start while requests or timers of the first run are pending
RaceStart == StartSimulationOp(MaxRaceStarts)
RaceStop == StopSimulationOp(MaxRaceStops)

NextLeakRace ==
    \/ SelectDataset
    \/ RaceStart
    \/ DownloadOk
    \/ DownloadFail
    \/ InferenceOk
    \/ InferenceFail
    \/ TimerFire
    \/ RaceStop

SpecLeakRace == Init /\ [][NextLeakRace]_vars

\* the answers that generate an alert
AlertResults == {res \in Results : res.alert_generated}

SelectLong == SelectDatasetOp(LongDatasetIds)
\* Start is not clicked again while the file is still being downloaded
LongStart == downloads = << >> /\ StartSimulationOp(MaxLongStarts)
AlertingResponse == InferenceResponse(AlertResults)
QuietResponse ==
    /\ Len(dataLog) < MaxQuietRows
    /\ InferenceResponse(Results \ AlertResults)

\* a dataset longer than both session buffers, most rows raising an alert
NextLeakLong ==
    \/ SelectLong
    \/ LongStart
    \/ DownloadOk
    \/ AlertingResponse
    \/ QuietResponse
    \/ TimerFire

SpecLeakLong == Init /\ [][NextLeakLong]_vars

ShortStart == StartSimulationOp(MaxShortStarts)

NextRequests ==
    \/ SelectDataset
    \/ ShortStart
    \/ DownloadOk
    \/ DownloadFail
    \/ InferenceOk
    \/ InferenceFail
    \/ TimerFire
    \/ Dismiss
    \/ AcknowledgeOk
    \/ AcknowledgeFail
    \/ DeleteDataset
    \/ DeleteOk
    \/ DeleteFail

SpecRequests == Init /\ [][NextRequests]_vars

(***************************************************************************)
(* Properties.                                                             *)
(***************************************************************************)

\* C1: in every reachable state of the provider, after any sequence of
\* ticks, pauses, resumes and diagnostic runs, the history buffer holds at
\* most 30 entries.
C1_HistoryAtMost30 == Len(history) <= 30

\* a full buffer after more than 30 ticks, a pause with time passing and a
\* diagnostic run
C1_Witness ==
    /\ tickCount > 30
    /\ idle > 0
    /\ diagStarted > 0
    /\ Len(history) = 30

\* C2: the history buffer is always the last 30 elements, in append order,
\* of the 30 seed entries followed by every tick's entry in tick order; after
\* k >= 30 ticks it holds exactly the entries of ticks k-29..k, oldest first.
C2_HistoryIsTailOfLog ==
    /\ Len(log) = 30 + tickCount
    /\ Len(history) = 30
    /\ \A i \in 1..30 : history[i] = log[tickCount + i]

\* 31 ticks: every seed entry is gone, the oldest entry is that of tick 2
C2_Witness ==
    /\ tickCount = 31
    /\ history[1] = log[30 + 2]
    /\ history[30] = log[30 + 31]
    /\ history[1] # history[30]

\* C3: while isLive is false (set by the Pause button or by runDiagnostics)
\* no history entry is appended: no step taken from a paused state changes the
\* history buffer, however much time passes.
C3_NoAppendWhilePaused == [][~isLive => history' = history]_vars

\* paused by the button (no diagnostic running) after some ticks, and a tick
\* period has elapsed during the pause
C3_Witness ==
    /\ ~isLive
    /\ ~isDiagnosing
    /\ idle > 0
    /\ tickCount > 0

\* C4: after every tick each sensor's status is the threshold classification
\* of the health value h looked up for it: critical iff h < 75, warning iff
\* 75 <= h < 90, normal iff h >= 90.
C4_StatusIsClassification ==
    tickCount > 0 =>
        \A i \in 1..Len(sensors) :
            LET h == HealthToCheck(sensors[i].id, segmentHealth)
                st == sensors[i].status
            IN  /\ st \in {"critical", "warning", "normal"}
                /\ st = "critical" <=> h < 750
                /\ st = "warning" <=> (750 <= h /\ h < 900)
                /\ st = "normal" <=> h >= 900

\* the four boundary values 74.9, 75.0, 89.9 and 90.0 classified by one tick
C4_Witness ==
    /\ tickCount > 0
    /\ segmentHealth["A-B"] = 749 /\ sensors[1].status = "critical"
    /\ segmentHealth["B-C"] = 750 /\ sensors[2].status = "warning"
    /\ segmentHealth["C-D"] = 899 /\ sensors[4].status = "warning"
    /\ segmentHealth["D-E"] = 900 /\ sensors[5].status = "normal"

C6_AtMostOneInterval ==
    /\ Len(intervals) <= 1
    /\ ~isLive => intervals = << >>

\* the effect has re-run for the segmentHealth object of a later tick and
\* one interval is armed
C6_Witness ==
    /\ tickCount > 1
    /\ effectDeps = <<TRUE, segRef>>
    /\ segRef = tickCount
    /\ Len(intervals) = 1

\* C7: ticks that would have fired during a pause are never replayed: every
\* tick executes while isLive is true and appends exactly one entry, so the
\* number of entries ever appended equals the number of ticks executed live.
C7_NoReplay ==
    /\ Len(log) - 30 = liveTicks
    /\ tickCount = liveTicks

\* resumed after a pause during which a period elapsed: the two latest
\* entries are two periods apart, nothing was appended for the missed one
C7_Witness ==
    /\ isLive
    /\ idle = 1
    /\ liveTicks >= 2
    /\ history[30].time = TimeLabel(clock)
    /\ history[29].time = TimeLabel(clock - 2)

\* C8: getSensorReading(sensorId) is read-only: for every argument it leaves
\* history (the fields of the latest entry included), sensors, segmentHealth,
\* systemHealth, isLive and isDiagnosing unchanged.
C8_ReadOnly ==
    [][readCount' # readCount =>
         UNCHANGED <<history, sensors, segmentHealth, systemHealth, isLive,
                     isDiagnosing>>]_vars

\* a reading of SENSOR_D whose flow and pressure differ from those of the
\* latest entry it was copied from
C8_Witness ==
    /\ readCount > 0
    /\ readArg = "SENSOR_D"
    /\ reading.time = history[30].time
    /\ reading.flow # history[30].flow
    /\ reading.pressure # history[30].pressure

ReadingFields == {"pressure", "flow", "temp", "vibration", "corrosion"}

\* C9: for every reachable history and every sensor id of the fixed list,
\* each of pressure, flow, temp, vibration and corrosion of the returned
\* reading is a defined finite number.
C9_ReadingFinite ==
    (readCount > 0 /\ readArg \in SensorIds) =>
        \A f \in ReadingFields :
            /\ f \in DOMAIN reading
            /\ reading[f] # Undefined
            /\ reading[f] # NaN

\* a reading taken from an entry appended by a tick (which has no corrosion
\* field of its own)
C9_Witness ==
    /\ readCount > 0
    /\ tickCount > 0
    /\ readArg = "SENSOR_C"
    /\ reading.time = history[30].time
    /\ "corrosion" \notin DOMAIN history[30]
    /\ reading.corrosion # Undefined

\* C10: the flow returned by getSensorReading('SENSOR_D') is strictly less
\* than the flow of the latest history entry it is derived from.
C10_DownstreamFlowLess ==
    [][(readCount' # readCount /\ readArg' = "SENSOR_D") =>
         reading'.flow < history[Len(history)].flow]_vars

\* a SENSOR_D reading of an entry appended by a tick
C10_Witness ==
    /\ readCount > 0
    /\ tickCount > 0
    /\ readArg = "SENSOR_D"
    /\ reading.time = history[30].time
    /\ reading.flow < history[30].flow

\* C11: in every reachable state every segment health value (A-B, B-C, C-D,
\* D-E) lies within [0, 100].
C11_SegmentHealthInRange ==
    \A s \in Segments :
        /\ 0 <= segmentHealth[s]
        /\ segmentHealth[s] <= 100 * HealthScale

\* after ticks, a pause and a resume the object is a new one and A-B is still
\* at the upper limit
C11_Witness ==
    /\ tickCount > 1
    /\ idle > 0
    /\ isLive
    /\ segRef = tickCount
    /\ segmentHealth["A-B"] = 100 * HealthScale
    /\ segmentHealth["C-D"] = 885

\* the two sensors at the ends of each segment
SegmentEnds ==
    [s \in Segments |->
        CASE s = "A-B" -> {"SENSOR_A", "SENSOR_B"}
          [] s = "B-C" -> {"SENSOR_B", "SENSOR_C"}
          [] s = "C-D" -> {"SENSOR_C", "SENSOR_D"}
          [] s = "D-E" -> {"SENSOR_D", "SENSOR_E"}]

UndisturbedRun == starts = 1 /\ stops = 0 /\ failures = << >>

\* nothing is in flight and no timer is armed
Quiescent == downloads = << >> /\ inflight = << >> /\ timers = << >>

\* C13: in a simulation that is started, not stopped and in which no request
\* fails, the rows are posted one request per row, in dataset order, each
\* exactly once: the step index advances by 1 per response, the next request
\* is issued only after the previous response, and after the last row the
\* simulation terminates with isSimulating false.
C13_RowsInOrderOnce ==
    /\ [](UndisturbedRun =>
            /\ \A k \in 1..Len(submitted) : submitted[k] = k - 1
            /\ Len(inflight) + Len(timers) <= 1
            /\ stepRef = Len(submitted) - Len(inflight)
            /\ \A i \in 1..Len(inflight) :
                   [inflight[i] EXCEPT !.timestamp = 0] =
                       PayloadOf(datasetContentRef[stepRef + 1], 0)
            /\ Quiescent =>
                   /\ ~isSimulating
                   /\ ~isSimulatingRef
                   /\ stepRef = Len(datasetContentRef)
                   /\ Len(submitted) = Len(datasetContentRef))
    /\ [](starts = 1 => <>(\/ ~UndisturbedRun
                           \/ Quiescent /\ ~isSimulating))

\* the longest dataset has been streamed to its end: every row was posted
\* and answered, the completion toast is the last one shown
C13_Witness ==
    /\ UndisturbedRun
    /\ Quiescent
    /\ Len(datasetContentRef) = MaxRows
    /\ submitted = [k \in 1..MaxRows |-> k - 1]
    /\ Len(simulationData) = MaxRows
    /\ ~isSimulating
    /\ toasts[Len(toasts)] = Toast("success", "Simulation complete")

\* C14: every request failure is reported through a toast: whenever a
\* request of LeakDetection (dataset download, inference POST), Alerts
\* (acknowledge) or DataUpload (delete) fails, a toast is shown.
C14_EveryFailureToasts ==
    [][Len(failures') > Len(failures) =>
         /\ Len(toasts') > Len(toasts)
         /\ toasts'[Len(toasts')].type = "error"]_vars

\* C15: the readings list of the SensorMonitor page is a bounded drop-oldest
\* buffer of capacity 30: after any number of samples its length never
\* exceeds 30 and it holds the most recent samples in chronological order.
C15_ReadingsAtMost30 ==
    LET n == Len(sampleLog)
        k == IF n < 30 THEN n ELSE 30
    IN  /\ Len(readings) <= 30
        /\ readings = SubSeq(sampleLog, n - k + 1, n)

\* C16: systemHealth is purely derived: in every reachable state, the initial
\* state before the first tick and any paused state included, it equals
\* 0.7 * mean + 0.3 * min of the current segment health values.
C16_SystemHealthAlwaysDerived ==
    systemHealth = SystemHealthOf(segmentHealth)

\* C17: every entry of the history buffer, seed entry or entry appended by a
\* tick, is a timestamped reading carrying all five fields pressure, flow,
\* temp, vibration and corrosion.
C17_EveryEntryHasFiveFields ==
    \A i \in 1..Len(history) :
        /\ "time" \in DOMAIN history[i]
        /\ \A f \in ReadingFields :
               /\ f \in DOMAIN history[i]
               /\ IsNumber(history[i][f])

C19_LastMatchWins ==
    LET used == [id \in SensorIds |->
                    CASE id = "SENSOR_A" -> "A-B"
                      [] id = "SENSOR_B" -> "B-C"
                      [] id = "SENSOR_C" -> "C-D"
                      [] id = "SENSOR_D" -> "C-D"
                      [] id = "SENSOR_E" -> "D-E"]
    IN  tickCount > 0 =>
            /\ \A i \in 1..Len(sensors) :
                   sensors[i].status =
                       StatusOf(segmentHealth[used[sensors[i].id]])
            /\ segmentHealth = SeedHealth =>
                   [i \in 1..Len(sensors) |-> sensors[i].status] =
                       <<"normal", "normal", "warning", "warning", "normal">>

\* SENSOR_B is normal next to a critical A-B, SENSOR_C is warning next to a
\* healthy B-C, SENSOR_D is warning next to a critical D-E
C19_Witness ==
    /\ tickCount > 0
    /\ segmentHealth["A-B"] = 0
    /\ segmentHealth["B-C"] = 100 * HealthScale
    /\ segmentHealth["C-D"] = 885
    /\ segmentHealth["D-E"] = 0
    /\ [i \in 1..Len(sensors) |-> sensors[i].status] =
           <<"critical", "normal", "warning", "warning", "critical">>

\* C20: for every argument of getSensorReading, the five sensor ids and any
\* other value such as 'all', the distance adjustment is a pressure loss:
\* apart from the final noise of at most 0.1 the returned pressure does not
\* exceed the pressure of the latest history entry.
C20_PressureNeverGains ==
    [][readCount' # readCount =>
         reading'.pressure <=
             history[Len(history)].pressure + Scale \div 10]_vars

\* C21: the live feed is paused for the whole duration of a diagnostic run:
\* in every reachable state, under any interleaving of runDiagnostics with
\* the Pause/Resume control, isDiagnosing = true implies isLive = false.
C21_PausedWhileDiagnosing == isDiagnosing => ~isLive

C23_DiagnosingWhilePending ==
    (\E k \in 1..Len(diagCalls) : ~diagCalls[k].resolved) => isDiagnosing

\* C24: completion of a diagnostic run sets isLive to true unconditionally:
\* the feed is live after the run completes even if the user had paused the
\* feed before runDiagnostics was called or paused it again during the run.
C24_LiveAfterCompletion ==
    [][diagTimers' < diagTimers => isLive']_vars

\* a run has just completed: the feed is live although the effect last ran
\* for a paused feed, a tick period went by with no interval armed, and no
\* other run is pending
C24_Witness ==
    /\ Len(diagCalls) > 0
    /\ diagTimers = 0
    /\ diagCalls[Len(diagCalls)].resolved
    /\ isLive
    /\ effectDeps = <<FALSE, segRef>>
    /\ intervals = << >>
    /\ idle > 0

\* ---- LeakDetection: overlapping runs, stop and failure ----

\* the last min(n, Len(seq)) elements of seq, in order
LastN(seq, n) ==
    IF Len(seq) <= n THEN seq ELSE SubSeq(seq, Len(seq) - n + 1, Len(seq))

\* seq back to front
Reverse(seq) == [k \in 1..Len(seq) |-> seq[Len(seq) + 1 - k]]

\* C25: at most one streaming loop is active at any time: there is never
\* more than one pending processStep timer or in-flight inference request,
\* and within a run the rows are submitted in dataset order, none twice and
\* none skipped (the k-th request of a run carries row k - 1).
C25_OneStreamingLoop ==
    /\ Len(inflight) + Len(timers) <= 1
    /\ \A k \in 1..Len(submitted) : submitted[k] = k - 1

\* C26: once stopSimulation has been called, currentPrediction,
\* simulationData, generatedAlerts and the step index do not change until
\* the next startSimulation.
C26_StopIsImmediate ==
    [][(stopped /\ stopped') =>
          UNCHANGED <<currentPrediction, simulationData, generatedAlerts,
                      stepRef>>]_vars

\* C27: when an inference request fails, isSimulating and isSimulatingRef
\* become false, the step index and the two session buffers stay as they
\* are, and from then on until the next startSimulation no request is
\* issued and no timer is armed.
C27_FailureStopsInPlace ==
    [][(failed' /\ starts' = starts) =>
          /\ ~isSimulating'
          /\ ~isSimulatingRef'
          /\ UNCHANGED <<stepRef, simulationData, generatedAlerts>>
          /\ Len(inflight') <= Len(inflight)
          /\ Len(timers') <= Len(timers)]_vars

\* C28: simulationData holds the last 50 entries of the run in arrival
\* order and never more than 50; generatedAlerts holds the last 10 alerts of
\* the run, newest first, and never more than 10.
C28_SessionBuffersBounded ==
    /\ Len(simulationData) <= 50
    /\ simulationData = LastN(dataLog, 50)
    /\ Len(generatedAlerts) <= 10
    /\ generatedAlerts = Reverse(LastN(alertLog, 10))

\* more rows were answered than either buffer holds
C28_Witness ==
    /\ Len(dataLog) > 50
    /\ Len(simulationData) = 50
    /\ simulationData[1] = dataLog[Len(dataLog) - 49]
    /\ Len(alertLog) > 10
    /\ Len(generatedAlerts) = 10
    /\ generatedAlerts[1] = alertLog[Len(alertLog)]

====
